---- MODULE Spec2Model ----
(***************************************************************************)
(* State machine of the ChatInterface component                            *)
(* (src/app/components/ChatInterface.tsx): the React state of the session, *)
(* the event handlers, the continuation of handleSend after its await and  *)
(* the FileReader callbacks.                                               *)
(*                                                                         *)
(* Strings are sequences of one-character strings, so that trim, string    *)
(* concatenation and the seed hash are computed and not assumed.           *)
(* Every handler is one action.  React commits the updates of a handler    *)
(* before the next event is dispatched, so each action reads the committed *)
(* state and writes the next committed state.  What handleSend keeps in    *)
(* its closure across the await (prompt, styleProfile, nextIteration,      *)
(* baseImageData) is the record it leaves in inflight.  styleChoice        *)
(* records whether the select was used: "never" in the session, "before"   *)
(* the latest accepted submission, or "since" it.                          *)
(* staleReaders records the file reads that were in progress when the     *)
(* base image was last cleared.                                            *)
(***************************************************************************)
EXTENDS Integers, Sequences, FiniteSets, TLC

VARIABLES messages, input, isBusy, styleId, iteration, baseImageData,
          previewBaseName, inflight, readers, now, styleChoice, staleReaders

vars == <<messages, input, isBusy, styleId, iteration, baseImageData,
          previewBaseName, inflight, readers, now, styleChoice,
          staleReaders>>

(* Bounds of the model. *)
MaxIteration == 2
MaxClock == 1

(* ---------------------------------------------------------------------- *)
(* Strings                                                                *)
(* ---------------------------------------------------------------------- *)

(* The value JavaScript calls undefined, and the empty string. *)
undefined == <<"undefined">>
EmptyString == <<>>

(* JavaScript truthiness of a string | undefined value. *)
Truthy(v) == v # undefined /\ v # EmptyString

(* Characters String.prototype.trim removes, among those of the model. *)
WhiteSpace == {" ", "\n"}

RECURSIVE TrimStart(_)
TrimStart(s) ==
    IF s # <<>> /\ Head(s) \in WhiteSpace THEN TrimStart(Tail(s)) ELSE s

RECURSIVE TrimEnd(_)
TrimEnd(s) ==
    IF s # <<>> /\ s[Len(s)] \in WhiteSpace
    THEN TrimEnd(SubSeq(s, 1, Len(s) - 1))
    ELSE s

Trim(s) == TrimEnd(TrimStart(s))

(* String.prototype.toLowerCase on the characters of the model. *)
ToLowerChar(c) == IF c = "B" THEN "b" ELSE c
ToLowerCase(s) == [i \in 1..Len(s) |-> ToLowerChar(s[i])]

(* ---------------------------------------------------------------------- *)
(* Style catalog and selector (lib/visualEngine)                          *)
(* ---------------------------------------------------------------------- *)

(* listStyleProfiles(): a fixed, non-empty, ordered list of profiles. *)
listStyleProfiles ==
    << [id |-> <<"x">>, label |-> <<"X">>],
       [id |-> <<"y">>, label |-> <<"Y">>] >>

profileOptions == listStyleProfiles

ProfileIds == {profileOptions[i].id : i \in 1..Len(profileOptions)}

CharCode(c) ==
    CASE c = " "  -> 32
      [] c = "\n" -> 10
      [] c = ","  -> 44
      [] c = "a"  -> 97
      [] c = "B"  -> 66
      [] c = "b"  -> 98
      [] c = "x"  -> 120
      [] c = "y"  -> 121
      [] OTHER    -> 63

(* Content hash of the whole seed, kept in 16 bits. *)
RECURSIVE HashSeed(_)
HashSeed(seed) ==
    IF seed = <<>> THEN 0
    ELSE (HashSeed(SubSeq(seed, 1, Len(seed) - 1)) * 31
            + CharCode(seed[Len(seed)])) % 65536

(* pickStyleProfile(seed): the hash reduced modulo the catalog size. *)
pickStyleProfile(seed) ==
    listStyleProfiles[(HashSeed(seed) % Len(listStyleProfiles)) + 1]

(* Variant: an unknown id resolves to the last profile of the catalog. *)
resolveProfileFallsToLast(id) ==
    IF \E i \in 1..Len(profileOptions) : profileOptions[i].id = id
    THEN LET k == CHOOSE i \in 1..Len(profileOptions) :
                    /\ profileOptions[i].id = id
                    /\ \A j \in 1..(i - 1) : profileOptions[j].id # id
         IN profileOptions[k]
    ELSE profileOptions[Len(profileOptions)]

(* resolveProfile(id): find by id, else the first profile. *)
resolveProfile(id) ==
    IF \E i \in 1..Len(profileOptions) : profileOptions[i].id = id
    THEN LET k == CHOOSE i \in 1..Len(profileOptions) :
                    /\ profileOptions[i].id = id
                    /\ \A j \in 1..(i - 1) : profileOptions[j].id # id
         IN profileOptions[k]
    ELSE profileOptions[1]

(* renderGeminiCanvas resolves with an encoded image of its inputs. *)
renderGeminiCanvas(prompt, styleProfile, nextIteration, base) ==
    <<"canvas", styleProfile.id, nextIteration, Truthy(base)>>

(* ---------------------------------------------------------------------- *)
(* Caption                                                                *)
(* ---------------------------------------------------------------------- *)

(* prompt.split(/[,.;\n]/) *)
Delimiters == {",", ".", ";", "\n"}

RECURSIVE SplitPrompt(_)
SplitPrompt(s) ==
    IF s = <<>> THEN << <<>> >>
    ELSE LET rest == SplitPrompt(Tail(s))
         IN IF Head(s) \in Delimiters
            THEN << <<>> >> \o rest
            ELSE << <<Head(s)>> \o rest[1] >> \o Tail(rest)

IsNonEmpty(part) == part # <<>>

summarizePrompt(prompt) ==
    LET parts == SplitPrompt(prompt)
        trimmed == [i \in 1..Len(parts) |-> Trim(parts[i])]
        filtered == SelectSeq(trimmed, IsNonEmpty)
        keywords == SubSeq(filtered, 1, IF Len(filtered) < 2 THEN Len(filtered) ELSE 2)
    IN IF Len(keywords) = 0 THEN <<"os conceitos principais do pedido">>
       ELSE IF Len(keywords) = 1 THEN ToLowerCase(keywords[1])
       ELSE ToLowerCase(keywords[1]) \o <<" e ">> \o ToLowerCase(keywords[2])

buildAssistantCaption(prompt, profile, usedBase) ==
    LET summary == summarizePrompt(prompt)
        profileTone == profile.label
    IN IF usedBase
       THEN <<"Transformei a base fornecida seguindo o estilo ">> \o profileTone
              \o <<". Destaquei ">> \o summary
              \o <<" e preservei a identidade estabelecida.">>
       ELSE <<"Modelei uma composicao original em ">> \o profileTone
              \o <<", enfatizando ">> \o summary
              \o <<". Podemos iterar com novos ajustes.">>

ApologyText ==
    <<"Nao consegui gerar a composicao agora. Tente novamente com outro pedido ou recarregue a pagina.">>

GreetingText ==
    <<"Oi! Sou o seu atelier visual estilo Gemini.">>

(* ---------------------------------------------------------------------- *)
(* Inputs of the environment                                              *)
(* ---------------------------------------------------------------------- *)

(* Texts the user types into the textarea. *)
TypedTexts ==
    { <<" ">>, <<" ", "b", " ">> }

(* The text the textarea holds at first: a non-blank sentence. *)
InitialInput == <<"B", ",", "a">>

(* Files the user can pick, and what FileReader.readAsDataURL makes of one. *)
Files ==
    { [name |-> <<"f1">>, content |-> <<"c1">>] }

readAsDataURL(file) == <<"data:">> \o file.content

(* ---------------------------------------------------------------------- *)
(* Initial state                                                          *)
(* ---------------------------------------------------------------------- *)

InitialMessage ==
    [ id |-> <<"init-assistant">>,
      role |-> "assistant",
      text |-> GreetingText,
      createdAt |-> 0,
      meta |-> [styleId |-> profileOptions[1].id, iteration |-> 0] ]

Init ==
    /\ messages = <<InitialMessage>>
    /\ input = InitialInput
    /\ isBusy = FALSE
    /\ styleId = profileOptions[1].id
    /\ iteration = 0
    /\ baseImageData = undefined
    /\ previewBaseName = undefined
    /\ inflight = <<>>
    /\ readers = {}
    /\ now = 0
    /\ styleChoice = "never"
    /\ staleReaders = {}

(* Date.now(): the clock reads what it read last, or has moved on. *)
DateNow == {t \in now..(now + 1) : t <= MaxClock}

(* ---------------------------------------------------------------------- *)
(* handleSend                                                             *)
(* ---------------------------------------------------------------------- *)

(* Variants of the guard: one that forgets the busy flag, one that forgets
   the empty prompt. *)
SendRejectedIgnoringBusy(prompt, busy) == prompt = EmptyString
SendRejectedIgnoringPrompt(prompt, busy) == busy

(* if (!prompt || isBusy) return; *)
SendRejected(prompt, busy) == prompt = EmptyString \/ busy

(* Variant: the style is derived from the prompt on every submission. *)
EffectiveStyleIdFromPrompt(sid, firstProfile) == firstProfile.id

(* styleId || firstProfile.id *)
EffectiveStyleId(sid, firstProfile) ==
    IF Truthy(sid) THEN sid ELSE firstProfile.id

(* if (!styleId) setStyleId(firstProfile.id) *)
StyleIdAfterSend(sid, firstProfile) ==
    IF ~Truthy(sid) THEN firstProfile.id ELSE sid

(* Variant: the counter is advanced twice. *)
NextIterationSkips(it) == it + 2

(* Variant: the counter is not advanced. *)
NextIterationStuck(it) == it

(* const nextIteration = iteration + 1 *)
NextIterationOf(it) == it + 1

UserMessage(prompt, t) ==
    [ id |-> <<"user", t>>, role |-> "user", text |-> prompt, createdAt |-> t ]

(* Variant: the base image is not handed to renderGeminiCanvas. *)
PendingCallWithoutBase(prompt, styleProfile, nextIteration, base) ==
    [ prompt |-> prompt, styleProfile |-> styleProfile,
      nextIteration |-> nextIteration, baseImageData |-> undefined ]

(* What the closure of handleSend holds while it awaits renderGeminiCanvas. *)
PendingCall(prompt, styleProfile, nextIteration, base) ==
    [ prompt |-> prompt, styleProfile |-> styleProfile,
      nextIteration |-> nextIteration, baseImageData |-> base ]

handleSend ==
    LET prompt == Trim(input) IN
    IF SendRejected(prompt, isBusy)
    THEN UNCHANGED vars
    ELSE LET firstProfile == pickStyleProfile(prompt \o styleId)
             styleProfile == resolveProfile(EffectiveStyleId(styleId, firstProfile))
             nextIteration == NextIterationOf(iteration)
         IN \E t \in DateNow :
            /\ iteration < MaxIteration
            /\ now' = t
            /\ isBusy' = TRUE
            /\ input' = EmptyString
            /\ styleId' = StyleIdAfterSend(styleId, firstProfile)
            /\ messages' = Append(messages, UserMessage(prompt, t))
            /\ iteration' = nextIteration
            /\ inflight' = Append(inflight,
                   PendingCall(prompt, styleProfile, nextIteration, baseImageData))
            /\ styleChoice' = IF styleChoice = "never" THEN "never" ELSE "before"
            /\ UNCHANGED <<baseImageData, previewBaseName, readers, staleReaders>>

(* Variant: meta.styleId is read from the state at settlement instead of
   from the closure. *)
AssistantMessageLiveStyle(call, image, t) ==
    [ id |-> <<"assistant", t>>,
      role |-> "assistant",
      text |-> buildAssistantCaption(call.prompt, call.styleProfile,
                                     Truthy(call.baseImageData)),
      image |-> image,
      createdAt |-> t,
      meta |-> [ styleId |-> styleId,
                 iteration |-> call.nextIteration,
                 baseImageUsed |-> Truthy(call.baseImageData) ] ]

(* Variant: baseImageUsed is read from the state at settlement instead of
   from the closure. *)
AssistantMessageLiveBase(call, image, t) ==
    [ id |-> <<"assistant", t>>,
      role |-> "assistant",
      text |-> buildAssistantCaption(call.prompt, call.styleProfile,
                                     Truthy(baseImageData)),
      image |-> image,
      createdAt |-> t,
      meta |-> [ styleId |-> call.styleProfile.id,
                 iteration |-> call.nextIteration,
                 baseImageUsed |-> Truthy(baseImageData) ] ]

(* The try branch after the await: renderGeminiCanvas resolved. *)
AssistantMessage(call, image, t) ==
    [ id |-> <<"assistant", t>>,
      role |-> "assistant",
      text |-> buildAssistantCaption(call.prompt, call.styleProfile,
                                     Truthy(call.baseImageData)),
      image |-> image,
      createdAt |-> t,
      meta |-> [ styleId |-> call.styleProfile.id,
                 iteration |-> call.nextIteration,
                 baseImageUsed |-> Truthy(call.baseImageData) ] ]

(* Variant: the apology carries a baseImageUsed flag like a result does. *)
FallbackMessageWithBaseFlag(call, t) ==
    [ id |-> <<"assistant-error", t>>,
      role |-> "assistant",
      text |-> ApologyText,
      createdAt |-> t,
      meta |-> [ styleId |-> call.styleProfile.id,
                 iteration |-> call.nextIteration,
                 baseImageUsed |-> Truthy(call.baseImageData) ] ]

(* The catch branch: renderGeminiCanvas rejected. *)
FallbackMessage(call, t) ==
    [ id |-> <<"assistant-error", t>>,
      role |-> "assistant",
      text |-> ApologyText,
      createdAt |-> t,
      meta |-> [ styleId |-> call.styleProfile.id,
                 iteration |-> call.nextIteration ] ]

(* Variant: the finally block is missing. *)
BusyKeptAfterSettle(busy) == busy

(* finally { setIsBusy(false) } *)
BusyAfterSettle(busy) == FALSE

RemoveAt(seq, i) == SubSeq(seq, 1, i - 1) \o SubSeq(seq, i + 1, Len(seq))

(* Variant: the image made becomes the base image of the next generation. *)
renderResolvedAdoptsResult ==
    \E i \in 1..Len(inflight), t \in DateNow :
        LET call == inflight[i]
            image == renderGeminiCanvas(call.prompt, call.styleProfile,
                                        call.nextIteration, call.baseImageData)
        IN /\ messages' = Append(messages, AssistantMessage(call, image, t))
           /\ now' = t
           /\ isBusy' = BusyAfterSettle(isBusy)
           /\ inflight' = RemoveAt(inflight, i)
           /\ baseImageData' = image
           /\ previewBaseName' = <<"Canvas anterior">>
           /\ UNCHANGED <<input, styleId, iteration, readers, styleChoice,
                          staleReaders>>

(* Variant: the message is appended to the log the closure captured when
   the submission was made, which lacks the user message. *)
renderResolvedStaleLog ==
    \E i \in 1..Len(inflight), t \in DateNow :
        LET call == inflight[i]
            image == renderGeminiCanvas(call.prompt, call.styleProfile,
                                        call.nextIteration, call.baseImageData)
        IN /\ messages' = Append(SubSeq(messages, 1, Len(messages) - 1),
                                  AssistantMessage(call, image, t))
           /\ now' = t
           /\ isBusy' = BusyAfterSettle(isBusy)
           /\ inflight' = RemoveAt(inflight, i)
           /\ UNCHANGED <<input, styleId, iteration, baseImageData,
                          previewBaseName, readers, styleChoice, staleReaders>>

renderResolved ==
    \E i \in 1..Len(inflight), t \in DateNow :
        LET call == inflight[i]
            image == renderGeminiCanvas(call.prompt, call.styleProfile,
                                        call.nextIteration, call.baseImageData)
        IN /\ messages' = Append(messages, AssistantMessage(call, image, t))
           /\ now' = t
           /\ isBusy' = BusyAfterSettle(isBusy)
           /\ inflight' = RemoveAt(inflight, i)
           /\ UNCHANGED <<input, styleId, iteration, baseImageData,
                          previewBaseName, readers, styleChoice, staleReaders>>

(* Variant: the catch block swallows the failure without a message. *)
renderRejectedSilent ==
    \E i \in 1..Len(inflight) :
        /\ isBusy' = BusyAfterSettle(isBusy)
        /\ inflight' = RemoveAt(inflight, i)
        /\ UNCHANGED <<messages, input, styleId, iteration, baseImageData,
                       previewBaseName, readers, now, styleChoice,
                       staleReaders>>

(* Variant: setIsBusy(false) sits at the end of the try block, not in a
   finally block. *)
renderRejectedStaysBusy ==
    \E i \in 1..Len(inflight), t \in DateNow :
        LET call == inflight[i]
        IN /\ messages' = Append(messages, FallbackMessage(call, t))
           /\ now' = t
           /\ inflight' = RemoveAt(inflight, i)
           /\ UNCHANGED <<input, isBusy, styleId, iteration, baseImageData,
                          previewBaseName, readers, styleChoice, staleReaders>>

renderRejected ==
    \E i \in 1..Len(inflight), t \in DateNow :
        LET call == inflight[i]
        IN /\ messages' = Append(messages, FallbackMessage(call, t))
           /\ now' = t
           /\ isBusy' = BusyAfterSettle(isBusy)
           /\ inflight' = RemoveAt(inflight, i)
           /\ UNCHANGED <<input, styleId, iteration, baseImageData,
                          previewBaseName, readers, styleChoice, staleReaders>>

(* ---------------------------------------------------------------------- *)
(* The other handlers                                                     *)
(* ---------------------------------------------------------------------- *)

(* textarea onChange: setInput(event.target.value) *)
handleInputChange ==
    \E text \in TypedTexts :
        /\ input' = text
        /\ UNCHANGED <<messages, isBusy, styleId, iteration, baseImageData,
                       previewBaseName, inflight, readers, now, styleChoice, staleReaders>>

(* Variant: the select is disabled while a generation is in flight. *)
selectStyleOnlyIdle ==
    \E id \in ProfileIds \ {styleId} :
        /\ ~isBusy
        /\ styleId' = id
        /\ styleChoice' = "since"
        /\ UNCHANGED <<messages, input, isBusy, iteration, baseImageData,
                       previewBaseName, inflight, readers, now, staleReaders>>

(* select onChange: setStyleId(event.target.value); the change event fires
   when the user picks another of the options. *)
selectStyle ==
    \E id \in ProfileIds \ {styleId} :
        /\ styleId' = id
        /\ styleChoice' = "since"
        /\ UNCHANGED <<messages, input, isBusy, iteration, baseImageData,
                       previewBaseName, inflight, readers, now, staleReaders>>

(* handleFileChange: start reading the picked file. *)
handleFileChange ==
    \E file \in Files :
        /\ readers' = readers \cup {file}
        /\ staleReaders' = staleReaders \ {file}
        /\ UNCHANGED <<messages, input, isBusy, styleId, iteration,
                       baseImageData, previewBaseName, inflight, now,
                       styleChoice>>

(* Variant: the result is taken before the read is complete, without the
   typeof check. *)
readerOnloadPartial ==
    \E file \in readers :
        /\ baseImageData' = <<"data:">>
        /\ previewBaseName' = file.name
        /\ readers' = readers \ {file}
        /\ staleReaders' = staleReaders \ {file}
        /\ UNCHANGED <<messages, input, isBusy, styleId, iteration,
                       inflight, now, styleChoice>>

(* reader.onload: the result of readAsDataURL is a string. *)
readerOnload ==
    \E file \in readers :
        /\ baseImageData' = readAsDataURL(file)
        /\ previewBaseName' = file.name
        /\ readers' = readers \ {file}
        /\ staleReaders' = staleReaders \ {file}
        /\ UNCHANGED <<messages, input, isBusy, styleId, iteration,
                       inflight, now, styleChoice>>

(* The read fails: onload is never called. *)
readerError ==
    \E file \in readers :
        /\ readers' = readers \ {file}
        /\ staleReaders' = staleReaders \ {file}
        /\ UNCHANGED <<messages, input, isBusy, styleId, iteration,
                       baseImageData, previewBaseName, inflight, now,
                       styleChoice>>

(* handleAdoptBase(message.image) for a message of the log. *)
ImageOf(message) ==
    IF "image" \in DOMAIN message THEN message.image ELSE undefined

(* The body of handleAdoptBase for its argument. *)
AdoptBase(image) ==
    IF ~Truthy(image)
    THEN UNCHANGED vars
    ELSE /\ baseImageData' = image
         /\ previewBaseName' = <<"Canvas anterior">>
         /\ UNCHANGED <<messages, input, isBusy, styleId, iteration,
                        inflight, readers, now, styleChoice, staleReaders>>

handleAdoptBase ==
    \E k \in 1..Len(messages) : AdoptBase(ImageOf(messages[k]))

(* handleClearBase: the button is rendered only while a base is active. *)
handleClearBase ==
    /\ Truthy(baseImageData)
    /\ baseImageData' = undefined
    /\ previewBaseName' = undefined
    /\ staleReaders' = readers
    /\ UNCHANGED <<messages, input, isBusy, styleId, iteration, inflight,
                   readers, now, styleChoice>>

Next ==
    \/ handleSend
    \/ renderResolved
    \/ renderRejected
    \/ handleInputChange
    \/ selectStyle
    \/ handleFileChange
    \/ readerOnload
    \/ readerError
    \/ handleAdoptBase
    \/ handleClearBase

Spec == Init /\ [][Next]_vars

(* Every renderGeminiCanvas call settles. *)
FairSpec == Spec /\ WF_vars(renderResolved \/ renderRejected)

(* ---------------------------------------------------------------------- *)
(* Steps and views the properties speak about                             *)
(* ---------------------------------------------------------------------- *)

LastOf(seq) == seq[Len(seq)]

(* A step that accepts a submission: a user message joins the log. *)
Accepted ==
    /\ Len(messages') = Len(messages) + 1
    /\ LastOf(messages').role = "user"

(* A step in which a renderGeminiCanvas call settles. *)
Settled == Len(inflight') < Len(inflight)

(* The messages of the log that generation attempts left, in order. *)
IsAttemptMessage(m) == m.role = "assistant" /\ m.id # <<"init-assistant">>
AttemptMessages == SelectSeq(messages, IsAttemptMessage)

IsUserMessage(m) == m.role = "user"
UserMessages == SelectSeq(messages, IsUserMessage)

(* The iteration numbers given to the attempts so far, settled or not. *)
AttemptNumbers ==
    [k \in 1..Len(AttemptMessages) |-> AttemptMessages[k].meta.iteration]
        \o [k \in 1..Len(inflight) |-> inflight[k].nextIteration]

(* ---------------------------------------------------------------------- *)
(* Properties                                                             *)
(* ---------------------------------------------------------------------- *)

(* C1. Single-flight: in every reachable state at most one renderGeminiCanvas
   call is outstanding, whatever handleSend calls are made while one is. *)
C1_SingleFlight == Len(inflight) <= 1

(* A call is outstanding and the textarea holds a valid prompt, so that a
   further handleSend is a submission issued before the call has settled. *)
C1_Witness ==
    /\ Len(inflight) = 1
    /\ Trim(input) # EmptyString
    /\ iteration < MaxIteration
    /\ ENABLED handleSend

(* C2. An invalid submission (prompt empty after trimming, or made while a
   generation is in flight) changes nothing: no handleSend step from such a
   state changes messages, iteration, isBusy, styleId or baseImageData, nor
   starts a renderGeminiCanvas call. *)
C2_InvalidSubmissionChangesNothing ==
    (Trim(input) = EmptyString \/ isBusy)
        => ~ENABLED (/\ handleSend
                     /\ <<messages, iteration, isBusy, styleId,
                          baseImageData, inflight>>'
                          # <<messages, iteration, isBusy, styleId,
                              baseImageData, inflight>>)

(* The textarea holds only white space while the session is idle: handleSend
   can be called and is an invalid submission. *)
C2_Witness ==
    /\ ~isBusy
    /\ input # EmptyString
    /\ Trim(input) = EmptyString
    /\ iteration >= 1
    /\ ENABLED handleSend

(* C3. The iteration counter starts at 0, goes up by exactly 1 in every step
   that accepts a submission and in no other step, and no two attempts are
   given the same iteration number. *)
C3_IterationCounts ==
    /\ iteration = 0
    /\ [][ /\ Accepted => iteration' = iteration + 1
           /\ ~Accepted => iteration' = iteration ]_vars
    /\ [](\A j, k \in 1..Len(AttemptNumbers) :
              j # k => AttemptNumbers[j] # AttemptNumbers[k])

(* Two attempts were made, one failed and one succeeded. *)
C3_Witness ==
    /\ iteration = 2
    /\ Len(AttemptMessages) = 2
    /\ \E k \in 1..2 : "image" \in DOMAIN AttemptMessages[k]
    /\ \E k \in 1..2 : "image" \notin DOMAIN AttemptMessages[k]

(* C4. isBusy is true exactly while a renderGeminiCanvas call started by an
   accepted submission has not settled. *)
C4_BusyIffOutstanding == isBusy <=> (Len(inflight) > 0)

(* The second submission of the session is in flight. *)
C4_Witness ==
    /\ isBusy
    /\ Len(inflight) = 1
    /\ iteration = 2
    /\ Len(AttemptMessages) = 1

(* ---------------------------------------------------------------------- *)
(* resolveProfile on arbitrary ids                                        *)
(* ---------------------------------------------------------------------- *)

(* Strings of up to MaxIdLen characters, among them the ids of the catalog,
   the empty string and ids the catalog does not have. *)
MaxIdLen == 4
IdChars == {"x", "y", "q"}
CandidateIds == UNION {[1..n -> IdChars] : n \in 0..MaxIdLen}

(* const activeStyle = useMemo(() => resolveProfile(styleId), [styleId]) *)
activeStyle == resolveProfile(styleId)

(* setStyleId with any string. *)
setStyleId ==
    \E id \in CandidateIds :
        /\ styleId' = id
        /\ UNCHANGED <<messages, input, isBusy, iteration, baseImageData,
                       previewBaseName, inflight, readers, now, styleChoice,
                       staleReaders>>

ResolveInit ==
    /\ styleId \in CandidateIds
    /\ messages = <<InitialMessage>>
    /\ input = InitialInput
    /\ isBusy = FALSE
    /\ iteration = 0
    /\ baseImageData = undefined
    /\ previewBaseName = undefined
    /\ inflight = <<>>
    /\ readers = {}
    /\ now = 0
    /\ styleChoice = "never"
    /\ staleReaders = {}

ResolveNext == setStyleId

ResolveSpec == ResolveInit /\ [][ResolveNext]_vars

(* ---------------------------------------------------------------------- *)
(* Steps and views the properties speak about, continued                  *)
(* ---------------------------------------------------------------------- *)

(* The call that settles in a step, when one does. *)
SettledCall == CHOOSE call \in {inflight[i] : i \in 1..Len(inflight)} :
                   \E i \in 1..Len(inflight) :
                       inflight[i] = call /\ inflight' = RemoveAt(inflight, i)

(* A step in which a call settles by success, and one by failure. *)
Succeeded == Settled /\ "image" \in DOMAIN LastOf(messages')
Failed == Settled /\ "image" \notin DOMAIN LastOf(messages')

(* The images of the assistant messages of the log. *)
LogImages == {ImageOf(messages[k]) : k \in 1..Len(messages)} \ {undefined}

(* C5. Whenever the call in flight settles, by success or by failure, isBusy
   is false afterwards; in every idle state a valid submission is accepted
   (below the bound of the model on the number of submissions); and, every
   call settling eventually, every generating state leads to an idle one. *)
C5_ReturnsToIdle ==
    /\ [][Settled => ~isBusy']_vars
    /\ [](~isBusy /\ Trim(input) # EmptyString /\ iteration < MaxIteration
            => ENABLED (handleSend /\ Accepted))
    /\ (isBusy ~> ~isBusy)

(* The session is idle after a failed attempt and holds a valid prompt. *)
C5_Witness ==
    /\ ~isBusy
    /\ Len(messages) >= 3
    /\ LastOf(messages).text = ApologyText
    /\ Trim(input) # EmptyString
    /\ iteration < MaxIteration

(* C6. When the call of an accepted submission fails, one assistant message
   is appended right after the user message of the attempt; it has no image,
   the apology text, the id of the resolved style, the number of the attempt
   (the counter before the submission plus 1) and no baseImageUsed field;
   isBusy is false afterwards. *)
C6_FailureMessage ==
    [][renderRejected =>
        LET m == LastOf(messages') IN
        /\ messages' = Append(messages, m)
        /\ LastOf(messages).role = "user"
        /\ m.role = "assistant"
        /\ "image" \notin DOMAIN m
        /\ m.text = ApologyText
        /\ m.meta.styleId = SettledCall.styleProfile.id
        /\ m.meta.iteration = iteration
        /\ m.meta.iteration = Len(UserMessages)
        /\ DOMAIN m.meta = {"styleId", "iteration"}
        /\ ~isBusy']_vars

(* The second attempt of the session failed while a base image was active. *)
C6_Witness ==
    /\ ~isBusy
    /\ iteration = 2
    /\ LastOf(messages).text = ApologyText
    /\ LastOf(messages).meta.iteration = 2
    /\ Truthy(baseImageData)

(* C7. Style stickiness: a submission accepted with no selectStyle since the
   previous accepted submission is given the style of the assistant message
   of that previous submission, and the assistant message of every attempt
   carries the id of the style the attempt was given. *)
C7_StyleSticky ==
    [][ /\ (Accepted /\ styleChoice # "since" /\ Len(AttemptMessages) >= 1)
            => LastOf(inflight').styleProfile.id
                   = LastOf(AttemptMessages).meta.styleId
        /\ Settled
            => LastOf(messages').meta.styleId = SettledCall.styleProfile.id
      ]_vars

(* Two attempts with different prompts and different outcomes, no selectStyle
   in the whole session, and the same style id on both assistant messages. *)
C7_Witness ==
    /\ styleChoice = "never"
    /\ Len(AttemptMessages) = 2
    /\ UserMessages[1].text # UserMessages[2].text
    /\ "image" \in DOMAIN AttemptMessages[1]
    /\ "image" \notin DOMAIN AttemptMessages[2]
    /\ AttemptMessages[1].meta.styleId = AttemptMessages[2].meta.styleId

(* C8. On a submission accepted while selectStyle was never called, the
   style of the attempt is pickStyleProfile(prompt + styleId) and its id
   becomes the active style; on one accepted after a style was chosen, the
   active style is used and stays. *)
C8_FirstUsePicksFromPrompt ==
    [][Accepted =>
        LET call == LastOf(inflight')
            prompt == LastOf(messages').text
        IN IF styleChoice = "never"
           THEN /\ call.styleProfile = pickStyleProfile(prompt \o styleId)
                /\ styleId' = call.styleProfile.id
           ELSE /\ call.styleProfile.id = styleId
                /\ styleId' = styleId]_vars

(* C9. Base-image chaining: a submission accepted while the active base is
   the image adopted from a message of the log (no upload, clear or other
   adopt since) hands that image to renderGeminiCanvas, and a generation
   that was handed an image of the log and succeeds has baseImageUsed true. *)
C9_AdoptedBaseIsUsed ==
    [][ /\ (Accepted /\ previewBaseName = <<"Canvas anterior">>)
            => /\ baseImageData \in LogImages
               /\ LastOf(inflight').baseImageData = baseImageData
        /\ (Succeeded /\ SettledCall.baseImageData \in LogImages)
            => LastOf(messages').meta.baseImageUsed = TRUE
      ]_vars

(* The second attempt succeeded with baseImageUsed on the image of the
   first, which is still the adopted base. *)
C9_Witness ==
    /\ Len(AttemptMessages) = 2
    /\ "image" \in DOMAIN AttemptMessages[1]
    /\ "image" \in DOMAIN AttemptMessages[2]
    /\ AttemptMessages[2].meta.baseImageUsed = TRUE
    /\ baseImageData = AttemptMessages[1].image
    /\ previewBaseName = <<"Canvas anterior">>
    /\ readers = {}

(* C10. The base image handed to renderGeminiCanvas is the one active when
   the submission is accepted, and the assistant message of a successful
   generation has baseImageUsed true exactly when a base image was handed
   over, whatever happens to the active base image while the call is in
   flight. *)
C10_BaseFlagMatchesCall ==
    [][ /\ Accepted => LastOf(inflight').baseImageData = baseImageData
        /\ Succeeded
            => LastOf(messages').meta.baseImageUsed
                   = Truthy(SettledCall.baseImageData)
      ]_vars

(* The first generation succeeded without a base image, and the image it
   made is not the active base, which is an upload. *)
C10_Witness ==
    /\ Len(AttemptMessages) = 1
    /\ ~isBusy
    /\ "image" \in DOMAIN AttemptMessages[1]
    /\ AttemptMessages[1].meta.baseImageUsed = FALSE
    /\ Truthy(baseImageData)
    /\ baseImageData \notin LogImages

(* C11. The active base image is absent, or the complete data URL of a file
   the user uploaded, or the image of an assistant message of the log. *)
C11_BaseImageIsComplete ==
    \/ baseImageData = undefined
    \/ baseImageData \in {readAsDataURL(file) : file \in Files}
    \/ baseImageData \in LogImages

(* An upload is the active base while an image of the log exists, and a
   further file read is in progress. *)
C11_Witness ==
    /\ baseImageData \in {readAsDataURL(file) : file \in Files}
    /\ LogImages # {}
    /\ readers # {}

(* C12. resolveProfile(id) is the profile of the catalog whose id is the
   argument when there is one, and the first profile of the catalog for
   every other id, the empty string included; its value is always a profile
   of the catalog. *)
C12_ResolveProfile ==
    /\ \E i \in 1..Len(profileOptions) : activeStyle = profileOptions[i]
    /\ styleId \in ProfileIds => activeStyle.id = styleId
    /\ styleId \notin ProfileIds => activeStyle = profileOptions[1]

(* An id the catalog does not have was resolved. *)
C12_Witness ==
    /\ styleId = <<"y", "q">>
    /\ activeStyle = profileOptions[1]

(* The assistant messages of the log, the greeting included, in order. *)
IsAssistantMessage(m) == m.role = "assistant"
AssistantMessages == SelectSeq(messages, IsAssistantMessage)

(* C13. The assistant message of the k-th attempt carries meta.iteration k,
   the value the counter was given when the attempt was accepted; read in
   order, the meta.iteration of the assistant messages starts at 0 with the
   greeting and rises by exactly 1 with every attempt; the call in flight,
   if any, holds the current value of the counter. *)
C13_MessageIterations ==
    /\ AssistantMessages[1].meta.iteration = 0
    /\ \A k \in 2..Len(AssistantMessages) :
           AssistantMessages[k].meta.iteration
               = AssistantMessages[k - 1].meta.iteration + 1
    /\ \A k \in 1..Len(inflight) : inflight[k].nextIteration = iteration
    /\ Len(AssistantMessages) - 1 + Len(inflight) = iteration

(* A failed attempt then a successful one, numbered 1 and 2. *)
C13_Witness ==
    /\ Len(AttemptMessages) = 2
    /\ "image" \notin DOMAIN AttemptMessages[1]
    /\ "image" \in DOMAIN AttemptMessages[2]
    /\ AttemptMessages[1].meta.iteration = 1
    /\ AttemptMessages[2].meta.iteration = 2

(* C14. The log is append-only: in every step the log before the step is a
   prefix of the log after it. *)
C14_AppendOnly ==
    [][ /\ Len(messages') >= Len(messages)
        /\ SubSeq(messages', 1, Len(messages)) = messages ]_vars

(* Two attempts are in the log, and the select, the upload and the adopt
   button were used. *)
C14_Witness ==
    /\ Len(messages) = 5
    /\ styleChoice = "since"
    /\ previewBaseName = <<"Canvas anterior">>
    /\ readers # {}

(* C15. A step that accepts a submission appends one user message holding
   the trimmed prompt and starts the call; the step in which the call
   settles appends one assistant message right after that user message; no
   other step changes the log or starts a call. *)
C15_TwoMessagesPerSubmission ==
    [][ /\ Accepted
            => /\ messages' = Append(messages, LastOf(messages'))
               /\ LastOf(messages').text = Trim(input)
               /\ Len(inflight') = Len(inflight) + 1
               /\ LastOf(inflight').prompt = Trim(input)
        /\ Settled
            => /\ messages' = Append(messages, LastOf(messages'))
               /\ LastOf(messages').role = "assistant"
               /\ LastOf(messages).role = "user"
               /\ LastOf(messages).text = SettledCall.prompt
        /\ messages' # messages => Accepted \/ Settled
        /\ Len(inflight') > Len(inflight) => Accepted
      ]_vars

(* Two submissions, the second typed with white space around it, each
   followed by its assistant message. *)
C15_Witness ==
    /\ Len(messages) = 5
    /\ messages[2].role = "user" /\ messages[3].role = "assistant"
    /\ messages[4].role = "user" /\ messages[5].role = "assistant"
    /\ messages[4].text = <<"b">>
    /\ "image" \notin DOMAIN messages[5]

(* C16. The ids of the messages of the log are pairwise distinct. *)
C16_IdsDistinct ==
    \A j, k \in 1..Len(messages) : j # k => messages[j].id # messages[k].id

(* C17. A clear leaves the base image absent, and while it is absent the
   completion of a file read that was in progress when the base was cleared
   does not install a base image. *)
C17_ClearStaysCleared ==
    [][ /\ handleClearBase => baseImageData' = undefined
        /\ \A file \in staleReaders :
               (baseImageData = undefined /\ file \in readers
                  /\ file \notin readers')
                   => baseImageData' = undefined
      ]_vars

(* C18. The call of an accepted submission is given the style active when
   the submission is accepted, a selectStyle leaves the calls in flight as
   they are, and the assistant message of an attempt carries the style id
   its call was given. *)
C18_SelectInFlightIgnored ==
    [][ /\ Accepted => LastOf(inflight').styleProfile.id = styleId
        /\ styleId' # styleId => inflight' = inflight
        /\ Settled
            => /\ LastOf(messages').meta.styleId = SettledCall.styleProfile.id
               /\ styleId' = styleId
      ]_vars

(* Another style was selected while the first generation is in flight. *)
C18_Witness ==
    /\ isBusy
    /\ iteration = 1
    /\ Len(inflight) = 1
    /\ inflight[1].styleProfile.id # styleId
    /\ styleChoice = "since"

(* C19. selectStyle, upload, clear and adopt can be made whether or not a
   generation is in flight; each leaves messages, iteration and isBusy
   unchanged, selectStyle leaves the base image unchanged, upload, clear and
   adopt leave the active style unchanged, and an adopt of a message without
   an image changes nothing. *)
C19_FrameOfSideHandlers ==
    /\ [](/\ ENABLED selectStyle
          /\ ENABLED handleFileChange
          /\ Truthy(baseImageData) => ENABLED handleClearBase
          /\ \A k \in 1..Len(messages) :
                 IF Truthy(ImageOf(messages[k]))
                 THEN ENABLED (/\ AdoptBase(ImageOf(messages[k]))
                               /\ baseImageData' = ImageOf(messages[k]))
                 ELSE ~ENABLED (/\ AdoptBase(ImageOf(messages[k]))
                                /\ vars' # vars))
    /\ [][ /\ selectStyle
               => UNCHANGED <<messages, iteration, isBusy, baseImageData>>
           /\ (handleFileChange \/ readerOnload \/ handleClearBase
                 \/ handleAdoptBase)
               => UNCHANGED <<messages, iteration, isBusy, styleId>>
         ]_vars

(* While the second generation is in flight the style was changed and the
   base image replaced by the adopted image of the first. *)
C19_Witness ==
    /\ isBusy
    /\ iteration = 2
    /\ Len(inflight) = 1
    /\ inflight[1].styleProfile.id # styleId
    /\ inflight[1].baseImageData # baseImageData
    /\ previewBaseName = <<"Canvas anterior">>

(* C20. The step in which a generation settles leaves the active base image
   and the active style unchanged. *)
C20_SettlementKeepsBaseAndStyle ==
    [][Settled => UNCHANGED <<baseImageData, previewBaseName, styleId>>]_vars

(* The first generation succeeded and no base image is or was active. *)
C20_Witness ==
    /\ Len(AttemptMessages) = 1
    /\ ~isBusy
    /\ "image" \in DOMAIN AttemptMessages[1]
    /\ baseImageData = undefined
    /\ readers = {}
    /\ staleReaders = {}

====
